---- MODULE Spec2Model ----
(***************************************************************************)
(* Model of the survey record store of src/main.py: the Flask handlers     *)
(* submit_survey, get_responses, get_stats, export_csv and                 *)
(* delete_responses over the SQLite table survey_responses.                *)
(*                                                                         *)
(* Strings are sequences of one-character strings, so that ','.join,       *)
(* str.split(','), CAST(.. AS REAL) and key sorting are computed as the    *)
(* code computes them.  A JSON value of the request body is a record       *)
(* tagged with its Python type; the body itself is a function whose        *)
(* DOMAIN is the set of keys present (a Python dict).                      *)
(***************************************************************************)
EXTENDS Integers, Sequences, FiniteSets, TLC

(* ---------------------------- bounds ----------------------------------- *)

\* largest number of rows the table holds at once
MaxRows == 2
\* the same where the statistics are examined: three rows are needed for
\* two values of a column to have different counts
MaxStatsRows == 3
\* largest value of the wall clock, in seconds (CURRENT_TIMESTAMP)
MaxClock == 1

(* ---------------------------- strings ---------------------------------- *)

\* the characters used, in code-point order
CharOrder == <<",", "7", "9", "a", "b", "c", "d", "e", "g", "h", "i", "l",
               "m", "n", "o", "p", "r", "s", "t", "v", "x">>

CharRank(c) == CHOOSE i \in 1..Len(CharOrder) : CharOrder[i] = c

Digits == {"7", "9"}

DigitVal(c) == IF c = "7" THEN 7 ELSE 9

\* Python's a < b on str
RECURSIVE StrLess(_, _)
StrLess(a, b) ==
    IF b = <<>> THEN FALSE
    ELSE IF a = <<>> THEN TRUE
    ELSE IF Head(a) = Head(b) THEN StrLess(Tail(a), Tail(b))
    ELSE CharRank(Head(a)) < CharRank(Head(b))

EMPTY == <<>>
COMMA == <<",">>
s_a == <<"a">>
s_b == <<"b">>
s_a_comma_b == <<"a", ",", "b">>
s_7 == <<"7">>
s_9 == <<"9">>
s_x == <<"x">>
s_7x == <<"7", "x">>
s_portal == <<"p", "o", "r", "t", "a", "l">>
s_llm == <<"l", "l", "m">>
s_test == <<"t", "e", "s", "t">>
s_code == <<"c", "o", "d", "e">>
s_might == <<"m", "i", "g", "h", "t">>
s_more == <<"m", "o", "r", "e">>
s_text == <<"t", "e", "x", "t">>
s_improvements == <<"i", "m", "p", "r", "o", "v", "e", "m", "e", "n", "t", "s">>

\* Python's sub in s
Contains(s, sub) ==
    \E k \in 0..(Len(s) - Len(sub)) : SubSeq(s, k + 1, k + Len(sub)) = sub

\* ''.join(list): the separator forgotten
RECURSIVE JoinNoSeparator(_, _)
JoinNoSeparator(sep, list) ==
    IF list = <<>> THEN <<>>
    ELSE list[1] \o JoinNoSeparator(sep, Tail(list))

\* sep.join(list)
RECURSIVE Join(_, _)
Join(sep, list) ==
    IF list = <<>> THEN <<>>
    ELSE IF Len(list) = 1 THEN list[1]
    ELSE list[1] \o sep \o Join(sep, Tail(list))

\* s.split(',') : always at least one element
RECURSIVE SplitFrom(_, _)
SplitFrom(s, cur) ==
    IF s = <<>> THEN <<cur>>
    ELSE IF Head(s) = "," THEN <<cur>> \o SplitFrom(Tail(s), <<>>)
    ELSE SplitFrom(Tail(s), Append(cur, Head(s)))

Split(s) == SplitFrom(s, <<>>)

(* ------------------------ JSON request values -------------------------- *)

JStr(s) == [t |-> "str", v |-> s]
JList(l) == [t |-> "list", v |-> l]
JBool(b) == [t |-> "bool", v |-> b]

\* Python truthiness of a JSON value: '' and [] and False are falsy
Truthy(x) == IF x.t = "bool" THEN x.v ELSE x.v # <<>>

\* str(x) for the values the handlers apply it to
Str(x) == CASE x.t = "str" -> x.v

\* data.get(key, '')
Get(data, key) == IF key \in DOMAIN data THEN data[key] ELSE JStr(EMPTY)

(* ------------------------------ state ---------------------------------- *)

VARIABLES
    rows,       \* table survey_responses, in rowid order
    seq,        \* sqlite_sequence entry of the table: largest id ever used
    clock,      \* wall clock in seconds, the value of CURRENT_TIMESTAMP
    req,        \* the last request served
    resp,       \* the response to it
    issued,     \* history: the ids returned by successful submits, in order
    accepted,   \* history: the request bodies of the rows now stored
    job,        \* locals of a get_stats call that runs beside other requests
    alert       \* the last dialog shown by clearData on the admin page

vars == <<rows, seq, clock, req, resp, issued, accepted, job, alert>>

\* column order of CREATE TABLE
Columns == <<"id", "q1", "q2", "portal_rating", "llm_rating", "q4", "q5",
             "has_improvements", "improvements", "timestamp">>

ADMIN_PASSWORD == "admin123"

(* ------------------------------ submit --------------------------------- *)

required_fields == <<"q1", "q2", "q4", "q5">>

\* the loop over required_fields: index of the first field that is absent
\* or falsy, 0 when all are present
RECURSIVE FirstInvalidFrom(_, _)
FirstInvalidFrom(data, i) ==
    IF i > Len(required_fields) THEN 0
    ELSE IF required_fields[i] \notin DOMAIN data
            \/ ~Truthy(data[required_fields[i]]) THEN i
    ELSE FirstInvalidFrom(data, i + 1)

\* the loop without its early return: the last such field is reported
LastInvalid(data) ==
    LET bad == {i \in 1..Len(required_fields) :
                   required_fields[i] \notin DOMAIN data
                   \/ ~Truthy(data[required_fields[i]])}
    IN IF bad = {} THEN 0 ELSE CHOOSE i \in bad : \A j \in bad : j <= i

FirstInvalid(data) == FirstInvalidFrom(data, 1)

\* "Convert q2 list to string"
Q2String(q2) == IF q2.t = "list" THEN Join(COMMA, q2.v) ELSE Str(q2)

MaxOf(a, b) == IF a >= b THEN a ELSE b

LastId(table) == IF table = <<>> THEN 0 ELSE table[Len(table)].id

\* rowid chosen without AUTOINCREMENT: one more than the largest in the table
NextRowidNoAutoincrement(table, sequence) == LastId(table) + 1

\* INTEGER PRIMARY KEY AUTOINCREMENT: one more than the largest rowid that
\* ever existed in the table
NextRowid(table, sequence) == MaxOf(sequence, LastId(table)) + 1

\* the flag derived from the text: 1 when improvements is sent non-empty
HasImprovementsFromText(data) ==
    IF "improvements" \in DOMAIN data /\ Truthy(data["improvements"])
    THEN 1 ELSE 0

\* 1 if data.get('has_improvements') else 0
HasImprovementsFlag(data) ==
    IF "has_improvements" \in DOMAIN data /\ Truthy(data["has_improvements"])
    THEN 1 ELSE 0

\* an INSERT that skips a row whose answers are already stored
InsertRowDedup(table, row) ==
    IF \E i \in 1..Len(table) :
          [table[i] EXCEPT !.id = 0, !.timestamp = 0]
              = [row EXCEPT !.id = 0, !.timestamp = 0]
    THEN table ELSE Append(table, row)

\* INSERT INTO survey_responses ... ; conn.commit()
InsertRow(table, row) == Append(table, row)

\* the row written by the INSERT
NewRow(data, id, now) ==
    [id |-> id,
     q1 |-> Str(data["q1"]),
     q2 |-> Q2String(data["q2"]),
     portal_rating |-> Str(Get(data, "portal_rating")),
     llm_rating |-> Str(Get(data, "llm_rating")),
     q4 |-> Str(data["q4"]),
     q5 |-> Str(data["q5"]),
     has_improvements |-> HasImprovementsFlag(data),
     improvements |-> Str(Get(data, "improvements")),
     timestamp |-> now]

\* limit bounds the table, and the ids so that a submit can follow a clear
submit_survey(data, limit) ==
    /\ req' = [op |-> "submit", data |-> data]
    /\ IF FirstInvalid(data) # 0
       THEN /\ resp' = [op |-> "submit", code |-> 400,
                        body |-> [status |-> "error",
                                  message |-> <<"Missing required field: ",
                                                required_fields[FirstInvalid(data)]>>]]
            /\ UNCHANGED <<rows, seq, clock, issued, accepted, job, alert>>
       ELSE /\ Len(rows) < limit
            /\ seq <= limit
            /\ LET id == NextRowid(rows, seq) IN
                 /\ rows' = InsertRow(rows, NewRow(data, id, clock))
                 /\ seq' = id
                 /\ issued' = Append(issued, id)
                 /\ accepted' = Append(accepted, data)
                 /\ resp' = [op |-> "submit", code |-> 200,
                             body |-> [status |-> "success",
                                       message |-> "Survey response saved successfully",
                                       id |-> id]]
            /\ UNCHANGED <<clock, job, alert>>

(* ------------------------------- list ---------------------------------- *)

Orderings(n) ==
    {p \in [1..n -> 1..n] : \A i, j \in 1..n : i # j => p[i] # p[j]}

\* the same SELECT with ORDER BY timestamp ASC
OrderByTimestampAsc(table) ==
    {[i \in 1..Len(table) |-> table[p[i]]] : p \in
        {q \in Orderings(Len(table)) :
            \A i, j \in 1..Len(table) :
                i < j => table[q[i]].timestamp <= table[q[j]].timestamp}}

\* SELECT * FROM survey_responses ORDER BY timestamp DESC: every result the
\* statement allows; the order of rows with equal timestamps is not fixed
OrderByTimestampDesc(table) ==
    {[i \in 1..Len(table) |-> table[p[i]]] : p \in
        {q \in Orderings(Len(table)) :
            \A i, j \in 1..Len(table) :
                i < j => table[q[i]].timestamp >= table[q[j]].timestamp}}

\* dict(row) with q2 converted back to a list
ResponseDict(row) ==
    [row EXCEPT !.q2 = IF row.q2 # EMPTY THEN Split(row.q2) ELSE <<>>]

get_responses ==
    /\ req' = [op |-> "list"]
    /\ \E fetched \in OrderByTimestampDesc(rows) :
         resp' = [op |-> "list", code |-> 200,
                  body |-> [i \in 1..Len(fetched) |-> ResponseDict(fetched[i])]]
    /\ UNCHANGED <<rows, seq, clock, issued, accepted, job, alert>>

(* ------------------------------ export --------------------------------- *)

\* a fetched row as csv.writer receives it: the cells in column order
RowTuple(row) == [i \in 1..Len(Columns) |-> row[Columns[i]]]

\* writer.writerows(rows) alone: the header row forgotten
CsvRowsNoHeader(fetched) == [i \in 1..Len(fetched) |-> RowTuple(fetched[i])]

\* writer.writerow(columns); writer.writerows(rows)
CsvRows(fetched) == <<Columns>> \o [i \in 1..Len(fetched) |-> RowTuple(fetched[i])]

export_csv ==
    /\ req' = [op |-> "export"]
    /\ \E fetched \in OrderByTimestampDesc(rows) :
         resp' = [op |-> "export", code |-> 200, body |-> CsvRows(fetched)]
    /\ UNCHANGED <<rows, seq, clock, issued, accepted, job, alert>>

(* ------------------------------- clear --------------------------------- *)

\* the check skipped when the request carries no password
UnauthorizedIfGiven(args) ==
    "password" \in DOMAIN args /\ args["password"] # ADMIN_PASSWORD

\* request.args.get('password') != 'admin123'
Unauthorized(args) ==
    "password" \notin DOMAIN args \/ args["password"] # ADMIN_PASSWORD

\* a DELETE that keeps the oldest row
DeleteAllButFirst(table) == IF table = <<>> THEN <<>> ELSE <<table[1]>>

\* DELETE FROM survey_responses
DeleteAll(table) == <<>>

\* the handler; what the caller shows of the answer is the caller's part
delete_responses(args) ==
    /\ req' = [op |-> "clear", args |-> args]
    /\ IF Unauthorized(args)
       THEN /\ resp' = [op |-> "clear", code |-> 401,
                        body |-> [status |-> "error", message |-> "Unauthorized"]]
            /\ UNCHANGED <<rows, seq, clock, issued, accepted, job>>
       ELSE /\ rows' = DeleteAll(rows)
            /\ accepted' = <<>>
            /\ resp' = [op |-> "clear", code |-> 200,
                        body |-> [status |-> "success",
                                  message |-> "All responses cleared"]]
            /\ UNCHANGED <<seq, clock, issued, job>>

(* ------------------------------- stats --------------------------------- *)

\* SELECT COUNT(*) FROM survey_responses
CountAll(table) == Len(table)

\* the values of a column, and how many rows hold each
ColumnValues(table, col) == {table[i][col] : i \in 1..Len(table)}

CountOf(table, col, val) == Cardinality({i \in 1..Len(table) : table[i][col] = val})

SeqsOver(S) == {q \in [1..Cardinality(S) -> S] :
                   \A i, j \in 1..Cardinality(S) : i # j => q[i] # q[j]}

\* SELECT col, COUNT(*) ... GROUP BY col, then dict(): the (key, count)
\* pairs in every order the statement allows
GroupBy(table, col) ==
    {[i \in 1..Len(q) |-> <<q[i], CountOf(table, col, q[i])>>] :
        q \in SeqsOver(ColumnValues(table, col))}

\* ... GROUP BY col ORDER BY count DESC, then dict()
GroupByCountDesc(table, col) ==
    {d \in GroupBy(table, col) :
        \A i, j \in 1..Len(d) : i < j => d[i][2] >= d[j][2]}

\* CAST(s AS REAL): the value of the longest numeric prefix, 0.0 when there
\* is none (the characters modelled have no sign, blank or decimal point)
RECURSIVE CastRealFrom(_, _)
CastRealFrom(s, acc) ==
    IF s = <<>> \/ Head(s) \notin Digits THEN acc
    ELSE CastRealFrom(Tail(s), 10 * acc + DigitVal(Head(s)))

CastReal(s) == CastRealFrom(s, 0)

\* WHERE col != "" AND col IS NOT NULL (no stored rating is NULL: the
\* INSERT always binds a str)
RatedRows(table, col) == {i \in 1..Len(table) : table[i][col] # EMPTY}

RECURSIVE SumCast(_, _, _)
SumCast(table, col, idx) ==
    IF idx = {} THEN 0
    ELSE LET i == CHOOSE k \in idx : TRUE
         IN CastReal(table[i][col]) + SumCast(table, col, idx \ {i})

\* round(float(num / den), 1) in tenths; a tie goes to the even tenth, as
\* Python rounds a value that is exact in binary (the ties here are
\* multiples of 0.25)
RoundTenths(num, den) ==
    LET q == (10 * num) \div den
        r == (10 * num) % den
    IN IF 2 * r < den THEN q
       ELSE IF 2 * r > den THEN q + 1
       ELSE IF q % 2 = 0 THEN q ELSE q + 1

\* round(float(AVG(CAST(col AS REAL)) or 0), 1), in tenths
AverageRating(table, col) ==
    IF RatedRows(table, col) = {} THEN 0
    ELSE RoundTenths(SumCast(table, col, RatedRows(table, col)),
                     Cardinality(RatedRows(table, col)))

\* jsonify writes the keys of a dict in sorted order
SortKeys(d) ==
    CHOOSE q \in {[i \in 1..Len(d) |-> d[p[i]]] : p \in Orderings(Len(d))} :
        \A i, j \in 1..Len(q) : i < j => StrLess(q[i][1], q[j][1])

\* sum(1 for _ in q4_stats if 'improvements' in str(_).lower()): the
\* characters modelled are lower case already
ImprovementKeys(d) ==
    Cardinality({i \in 1..Len(d) : Contains(d[i][1], s_improvements)})

\* the dict handed to jsonify
StatsBody(total, q1_stats, avg_portal, avg_llm, q4_stats, q5_stats) ==
    [total_responses |-> total,
     q1_distribution |-> SortKeys(q1_stats),
     average_ratings |-> [portal |-> avg_portal, llm |-> avg_llm],
     q4_distribution |-> SortKeys(q4_stats),
     q5_distribution |-> SortKeys(q5_stats),
     has_improvements |-> [yes |-> ImprovementKeys(q4_stats),
                           no |-> total - ImprovementKeys(q4_stats)]]

\* get_stats served with no other request running beside it
get_stats ==
    /\ req' = [op |-> "stats"]
    /\ \E q1_stats \in GroupBy(rows, "q1"),
          q4_stats \in GroupByCountDesc(rows, "q4"),
          q5_stats \in GroupByCountDesc(rows, "q5") :
         resp' = [op |-> "stats", code |-> 200,
                  body |-> StatsBody(CountAll(rows), q1_stats,
                                     AverageRating(rows, "portal_rating"),
                                     AverageRating(rows, "llm_rating"),
                                     q4_stats, q5_stats)]
    /\ UNCHANGED <<rows, seq, clock, issued, accepted, job, alert>>

(* ------------------ stats beside other requests ------------------------ *)

\* app.run serves each request in a thread of its own, and get_stats runs
\* its six SELECTs one by one with no transaction around them: a submit or
\* a clear of another thread can commit between any two of them.  One
\* get_stats call is followed here, one action per SELECT.

NoJob == [pc |-> 0, total |-> 0, q1_stats |-> <<>>, avg_portal |-> 0,
          avg_llm |-> 0, q4_stats |-> <<>>, q5_stats |-> <<>>]

StatsStep(next) ==
    /\ job' = next
    /\ UNCHANGED <<rows, seq, clock, req, resp, issued, accepted, alert>>

\* SELECT COUNT(*) as total
get_stats_total ==
    /\ job.pc = 0
    /\ StatsStep([NoJob EXCEPT !.pc = 1, !.total = CountAll(rows)])

\* SELECT q1, COUNT(*) ... GROUP BY q1
get_stats_q1 ==
    /\ job.pc = 1
    /\ \E q1_stats \in GroupBy(rows, "q1") :
          StatsStep([job EXCEPT !.pc = 2, !.q1_stats = q1_stats])

\* SELECT AVG(CAST(portal_rating as REAL))
get_stats_avg_portal ==
    /\ job.pc = 2
    /\ StatsStep([job EXCEPT !.pc = 3,
                             !.avg_portal = AverageRating(rows, "portal_rating")])

\* SELECT AVG(CAST(llm_rating as REAL))
get_stats_avg_llm ==
    /\ job.pc = 3
    /\ StatsStep([job EXCEPT !.pc = 4,
                             !.avg_llm = AverageRating(rows, "llm_rating")])

\* SELECT q4, COUNT(*) ... GROUP BY q4 ORDER BY count DESC
get_stats_q4 ==
    /\ job.pc = 4
    /\ \E q4_stats \in GroupByCountDesc(rows, "q4") :
          StatsStep([job EXCEPT !.pc = 5, !.q4_stats = q4_stats])

\* SELECT q5, COUNT(*) ... GROUP BY q5 ORDER BY count DESC, then the
\* response from the locals gathered so far
get_stats_q5 ==
    /\ job.pc = 5
    /\ \E q5_stats \in GroupByCountDesc(rows, "q5") :
          resp' = [op |-> "stats", code |-> 200,
                   body |-> StatsBody(job.total, job.q1_stats, job.avg_portal,
                                      job.avg_llm, job.q4_stats, q5_stats)]
    /\ req' = [op |-> "stats"]
    /\ job' = NoJob
    /\ UNCHANGED <<rows, seq, clock, issued, accepted, alert>>

(* ----------------------------- admin page ------------------------------ *)

\* a query string with the password typed into the prompt
ClearDataArgsWithPassword(password) == [k \in {"password"} |-> password]

\* fetch('/api/responses', {method: 'DELETE'}): no query string
ClearDataArgs(password) == [k \in {} |-> ""]

\* clearData of the admin page: confirm(), prompt(), then the DELETE request
clearData(confirmed, password) ==
    IF ~confirmed
    THEN UNCHANGED vars
    ELSE IF password # "admin123"
    THEN /\ alert' = "Incorrect password. Operation cancelled."
         /\ UNCHANGED <<rows, seq, clock, req, resp, issued, accepted, job>>
    ELSE /\ delete_responses(ClearDataArgs(password))
         /\ alert' = IF resp'.code = 200
                     THEN "All responses have been cleared."
                     ELSE "Error clearing responses."

(* ------------------------------- clock --------------------------------- *)

\* a second passes
Tick ==
    /\ clock < MaxClock
    /\ clock' = clock + 1
    /\ UNCHANGED <<rows, seq, req, resp, issued, accepted, job, alert>>

(* ----------------------------- requests -------------------------------- *)

ABSENT == [t |-> "absent"]

\* a request body: the dict whose keys are the fields that are not ABSENT
MkData(f) == [k \in {x \in DOMAIN f : f[x].t # "absent"} |-> f[k]]

Body(q1, q2, pr, lr, q4, q5, hi, imp) ==
    MkData([q1 |-> q1, q2 |-> q2, portal_rating |-> pr, llm_rating |-> lr,
            q4 |-> q4, q5 |-> q5, has_improvements |-> hi, improvements |-> imp])

\* bodies that exercise the q2 conversion
Q2Inputs == {JStr(s_a), JList(<<s_a, s_b>>), JList(<<s_a_comma_b>>),
             JList(<<EMPTY>>), JList(<<s_a, EMPTY>>)}

ValidPayloads ==
    {Body(JStr(s_portal), q2, ABSENT, ABSENT, JStr(s_test), JStr(s_might),
          ABSENT, ABSENT) : q2 \in Q2Inputs}

\* bodies that exercise validation: a set of required fields is left out, or
\* one is sent empty ('' for q1, q4, q5 and [] for q2)
Damaged(fields, how) ==
    LET val(k, good) == IF k \notin fields THEN good
                        ELSE IF how = "absent" THEN ABSENT
                        ELSE IF k = "q2" THEN JList(<<>>) ELSE JStr(EMPTY)
    IN Body(val("q1", JStr(s_portal)), val("q2", JList(<<s_a, s_b>>)),
            ABSENT, ABSENT,
            val("q4", JStr(s_test)), val("q5", JStr(s_might)), ABSENT, ABSENT)

InvalidPayloads ==
    {Damaged(fields, "absent") :
        fields \in {{"q1"}, {"q2"}, {"q4"}, {"q5"}, {"q2", "q5"}, {"q4", "q5"},
                    {"q1", "q2", "q4", "q5"}}}
    \cup
    {Damaged({field}, "empty") : field \in {"q1", "q2", "q4", "q5"}}

Payloads == ValidPayloads \cup InvalidPayloads

\* bodies that exercise the statistics: ratings, and the q1/q4/q5 values
RatingPairs == {<<JStr(s_7), ABSENT>>, <<JStr(s_9), JStr(s_x)>>,
                <<JStr(EMPTY), JStr(s_9)>>, <<JStr(s_x), JStr(s_7)>>,
                <<JStr(s_7x), JStr(s_7x)>>}
ChoiceTriples == {<<s_llm, s_code, s_might>>, <<s_portal, s_code, s_more>>,
                  <<s_portal, s_test, s_more>>}

StatsPayloads ==
    {Body(JStr(s_portal), JList(<<s_a, s_b>>), r[1], r[2],
          JStr(s_test), JStr(s_might), ABSENT, ABSENT) : r \in RatingPairs}
    \cup
    {Body(JStr(c[1]), JList(<<s_a, s_b>>), JStr(s_7), JStr(s_9),
          JStr(c[2]), JStr(c[3]), ABSENT, ABSENT) : c \in ChoiceTriples}
    \cup
    {Body(JStr(s_portal), JList(<<s_a, s_b>>), JStr(s_7), JStr(s_9),
          JStr(s_test), ABSENT, ABSENT, ABSENT)}

\* bodies that exercise has_improvements and improvements, and one that
\* fails validation
FlagInputs == {ABSENT, JBool(TRUE), JBool(FALSE)}
TextInputs == {ABSENT, JStr(EMPTY), JStr(s_text)}

FlagPayloads ==
    {Body(JStr(s_portal), JList(<<s_a, s_b>>), ABSENT, ABSENT,
          JStr(s_test), JStr(s_might), hi, imp) :
        hi \in FlagInputs, imp \in TextInputs}
    \cup {Damaged({"q5"}, "absent")}

\* query strings of the DELETE request
ClearArgs == {[k \in {} |-> ""], [k \in {"password"} |-> ADMIN_PASSWORD],
              [k \in {"password"} |-> "letmein"]}

\* what the operator types into the prompt of clearData
PromptInputs == {ADMIN_PASSWORD, "letmein"}

\* bodies sent while a get_stats call is running
ThreadedPayloads ==
    {Body(JStr(s_portal), JStr(s_a), ABSENT, ABSENT, JStr(s_test), JStr(s_might),
          ABSENT, ABSENT),
     Body(JStr(s_llm), JStr(s_a), ABSENT, ABSENT, JStr(s_code), JStr(s_might),
          ABSENT, ABSENT),
     Damaged({"q5"}, "absent")}

(* --------------------------- specifications ---------------------------- *)

\* init_db on a fresh survey.db
Init ==
    /\ rows = <<>>
    /\ seq = 0
    /\ clock = 0
    /\ req = [op |-> "none"]
    /\ resp = [op |-> "none", code |-> 0, body |-> <<>>]
    /\ issued = <<>>
    /\ accepted = <<>>
    /\ job = NoJob
    /\ alert = ""

Next ==
    \/ \E data \in Payloads : submit_survey(data, MaxRows)
    \/ get_responses
    \/ get_stats
    \/ export_csv
    \/ \E args \in ClearArgs : delete_responses(args) /\ UNCHANGED alert
    \/ Tick

Spec == Init /\ [][Next]_vars

NextStats ==
    \/ \E data \in StatsPayloads : submit_survey(data, MaxStatsRows)
    \/ get_responses
    \/ get_stats
    \/ export_csv
    \/ \E args \in ClearArgs : delete_responses(args) /\ UNCHANGED alert
    \/ Tick

SpecStats == Init /\ [][NextStats]_vars

NextFlags ==
    \/ \E data \in FlagPayloads : submit_survey(data, MaxRows)
    \/ get_responses
    \/ get_stats
    \/ export_csv
    \/ \E args \in ClearArgs : delete_responses(args) /\ UNCHANGED alert
    \/ Tick

SpecFlags == Init /\ [][NextFlags]_vars

\* the store as an operator of the admin page can change it: submits come
\* from the survey form, clears only from clearData
NextAdmin ==
    \/ \E data \in Payloads : submit_survey(data, MaxRows)
    \/ get_responses
    \/ get_stats
    \/ export_csv
    \/ \E confirmed \in BOOLEAN, password \in PromptInputs :
          clearData(confirmed, password)
    \/ Tick

SpecAdmin == Init /\ [][NextAdmin]_vars

\* one get_stats call at a time, running beside submits and clears
NextThreaded ==
    \/ \E data \in ThreadedPayloads : submit_survey(data, MaxRows)
    \/ get_stats_total
    \/ get_stats_q1
    \/ get_stats_avg_portal
    \/ get_stats_avg_llm
    \/ get_stats_q4
    \/ get_stats_q5
    \/ \E args \in ClearArgs : delete_responses(args) /\ UNCHANGED alert
    \/ Tick

SpecThreaded == Init /\ [][NextThreaded]_vars

(* ------------------------------- claims -------------------------------- *)

HasComma(str) == \E i \in 1..Len(str) : str[i] = ","

\* the listed record d carries the submitted q1, q4, q5 and the submitted
\* q2 sequence
Carries(d, data) ==
    /\ d.q1 = data["q1"].v
    /\ d.q4 = data["q4"].v
    /\ d.q5 = data["q5"].v
    /\ d.q2 = data["q2"].v

\* C1 as stated: every list response contains, for each accepted submission
\* whose q2 is a sequence of strings (none cleared since), a record with the
\* submitted q1, q4, q5 and exactly the submitted q2 sequence.
C1_RoundTripAnyList ==
    resp.op = "list" =>
        \A k \in 1..Len(accepted) :
            accepted[k]["q2"].t = "list" =>
                \E i \in 1..Len(resp.body) : Carries(resp.body[i], accepted[k])

\* C1 amended: the same for the submissions whose q2 elements hold no comma
\* and whose q2 is not the one-element sequence [""].
C1_RoundTripNoDelimiter ==
    resp.op = "list" =>
        \A k \in 1..Len(accepted) :
            (/\ accepted[k]["q2"].t = "list"
             /\ accepted[k]["q2"].v # <<EMPTY>>
             /\ \A e \in 1..Len(accepted[k]["q2"].v) :
                    ~HasComma(accepted[k]["q2"].v[e]))
            => \E i \in 1..Len(resp.body) : Carries(resp.body[i], accepted[k])

C1_Witness ==
    /\ resp.op = "list"
    /\ \E k \in 1..Len(accepted) : accepted[k]["q2"] = JList(<<s_a, s_b>>)
    /\ \E k \in 1..Len(accepted) : accepted[k]["q2"] = JList(<<s_a, EMPTY>>)

\* a required field is missing from the body or empty in it
Missing(data, field) == field \notin DOMAIN data \/ data[field].v = <<>>

FieldRank(field) ==
    IF field = "q1" THEN 1 ELSE IF field = "q2" THEN 2
    ELSE IF field = "q4" THEN 3 ELSE 4

\* the least required field a body lacks, in the order q1, q2, q4, q5
FirstMissing(data) ==
    CHOOSE field \in {"q1", "q2", "q4", "q5"} :
        /\ Missing(data, field)
        /\ \A g \in {"q1", "q2", "q4", "q5"} :
              Missing(data, g) => FieldRank(field) <= FieldRank(g)

\* C2: a submit with a required field missing or empty answers with a
\* validation error that names the first such field in the order q1, q2, q4,
\* q5, and leaves the stored records as they were.
C2_ValidationError ==
    [][(/\ req'.op = "submit"
        /\ \E field \in {"q1", "q2", "q4", "q5"} : Missing(req'.data, field))
       => (/\ resp'.op = "submit"
           /\ resp'.code = 400
           /\ resp'.body.status = "error"
           /\ resp'.body.message =
                 <<"Missing required field: ", FirstMissing(req'.data)>>
           /\ rows' = rows)]_vars

C2_Witness ==
    /\ req.op = "submit"
    /\ Missing(req.data, "q4")
    /\ Missing(req.data, "q5")
    /\ ~Missing(req.data, "q2")
    /\ resp.code = 400
    /\ Len(rows) = MaxRows

\* the request carries the configured secret
CorrectToken(args) == "password" \in DOMAIN args /\ args["password"] = "admin123"

\* C3: a clear whose token is not the configured secret, or that has no
\* token, reports Unauthorized and leaves the stored records as they were.
C3_UnauthorizedClear ==
    [][(req'.op = "clear" /\ ~CorrectToken(req'.args))
       => (/\ resp'.op = "clear"
           /\ resp'.code = 401
           /\ resp'.body.message = "Unauthorized"
           /\ rows' = rows)]_vars

C3_Witness ==
    /\ req.op = "clear"
    /\ "password" \notin DOMAIN req.args
    /\ resp.code = 401
    /\ rows # <<>>

\* C4: a clear with the correct token removes every stored record; a list
\* served next returns the empty sequence and stats served next reports
\* total_responses = 0.
C4_ClearEmpties ==
    [][/\ (req'.op = "clear" /\ CorrectToken(req'.args))
             => (resp'.code = 200 /\ rows' = <<>>)
       /\ (req.op = "clear" /\ CorrectToken(req.args) /\ req'.op = "list")
             => resp'.body = <<>>
       /\ (req.op = "clear" /\ CorrectToken(req.args) /\ req'.op = "stats")
             => resp'.body.total_responses = 0]_vars

C4_Witness ==
    /\ req.op = "stats"
    /\ resp.body.total_responses = 0
    /\ issued # <<>>

\* C5: the ids returned by successful submits are strictly increasing over
\* the whole history, clears included, so no id is returned twice.
C5_IdsIncreasing ==
    \A i, j \in 1..Len(issued) : i < j => issued[i] < issued[j]

C5_Witness ==
    /\ resp.op = "submit"
    /\ resp.code = 200
    /\ Len(issued) > Len(rows)
    /\ resp.body.id = issued[Len(issued)]

IsNumeric(str) == str # <<>> /\ \A i \in 1..Len(str) : str[i] \in Digits

NumericRows(table, col) == {i \in 1..Len(table) : IsNumeric(table[i][col])}

\* the mean over the numeric ratings only, in tenths; 0 when there is none
NumericMean(table, col) ==
    IF NumericRows(table, col) = {} THEN 0
    ELSE RoundTenths(SumCast(table, col, NumericRows(table, col)),
                     Cardinality(NumericRows(table, col)))

\* C7: each average that stats reports is the mean over exactly the records
\* whose rating is present and numeric; empty and non-numeric ratings count
\* in neither the sum nor the number of records.
C7_MeanOfNumericOnly ==
    resp.op = "stats" =>
        /\ resp.body.average_ratings.portal = NumericMean(rows, "portal_rating")
        /\ resp.body.average_ratings.llm = NumericMean(rows, "llm_rating")

\* C8: when no stored record has a present, numeric rating for a field,
\* stats succeeds and reports 0 as that field's average.
C8_ZeroWhenNoneQualifies ==
    resp.op = "stats" =>
        /\ resp.code = 200
        /\ NumericRows(rows, "portal_rating") = {}
              => resp.body.average_ratings.portal = 0
        /\ NumericRows(rows, "llm_rating") = {}
              => resp.body.average_ratings.llm = 0

\* d maps each value stored in column col to the number of rows holding it
IsDistribution(d, table, col) ==
    /\ {d[i][1] : i \in 1..Len(d)} = ColumnValues(table, col)
    /\ Len(d) = Cardinality(ColumnValues(table, col))
    /\ \A i \in 1..Len(d) : d[i][2] = CountOf(table, col, d[i][1])

CountDescending(d) == \A i, j \in 1..Len(d) : i < j => d[i][2] >= d[j][2]

\* C9: the q4 and q5 distributions of a stats response map each stored value
\* to the number of records holding it, with the entries in descending order
\* of count.
C9_DistributionByCountDesc ==
    resp.op = "stats" =>
        /\ IsDistribution(resp.body.q4_distribution, rows, "q4")
        /\ IsDistribution(resp.body.q5_distribution, rows, "q5")
        /\ CountDescending(resp.body.q4_distribution)
        /\ CountDescending(resp.body.q5_distribution)

\* C10: the export is the header row of the columns in schema order, then
\* exactly one row per stored record in timestamp-descending order, each
\* cell the stored value (q2 the single delimited string).
C10_ExportRows ==
    resp.op = "export" =>
        /\ Len(resp.body) = Len(rows) + 1
        /\ resp.body[1] = <<"id", "q1", "q2", "portal_rating", "llm_rating",
                            "q4", "q5", "has_improvements", "improvements",
                            "timestamp">>
        /\ \A r \in 1..Len(rows) :
              \E k \in 2..Len(resp.body) :
                 resp.body[k] = <<rows[r].id, rows[r].q1, rows[r].q2,
                                  rows[r].portal_rating, rows[r].llm_rating,
                                  rows[r].q4, rows[r].q5,
                                  rows[r].has_improvements,
                                  rows[r].improvements, rows[r].timestamp>>
        /\ \A k, m \in 2..Len(resp.body) :
              k < m => resp.body[k][10] >= resp.body[m][10]

C10_Witness ==
    /\ resp.op = "export"
    /\ Len(resp.body) = 3
    /\ resp.body[2][10] > resp.body[3][10]
    /\ \E k \in 2..3 : resp.body[k][3] = s_a_comma_b

\* the submission carried a non-empty improvements text
HasText(data) == "improvements" \in DOMAIN data /\ data["improvements"].v # <<>>

\* the submission carried a has_improvements value that is true
HasFlag(data) == "has_improvements" \in DOMAIN data /\ data["has_improvements"].v = TRUE

\* C11 as stated: the stored has_improvements is true exactly when the
\* submission carried a non-empty improvements text.
C11_FlagFromText ==
    \A k \in 1..Len(rows) : (rows[k].has_improvements = 1) <=> HasText(accepted[k])

\* C11 amended: the stored has_improvements is 1 exactly when the submission
\* carried a true has_improvements value of its own, and 0 otherwise,
\* whatever the improvements text; the text is stored as sent.
C11_FlagFromRequest ==
    \A k \in 1..Len(rows) :
        /\ rows[k].has_improvements = (IF HasFlag(accepted[k]) THEN 1 ELSE 0)
        /\ rows[k].improvements =
              (IF HasText(accepted[k]) THEN accepted[k]["improvements"].v ELSE <<>>)

C11_Witness ==
    \E k \in 1..Len(rows) :
        /\ rows[k].has_improvements = 1
        /\ rows[k].improvements = <<>>
        /\ \E m \in 1..Len(rows) :
              rows[m].has_improvements = 0 /\ rows[m].improvements = s_text

\* C12: every valid submit adds exactly one record, also when an identical
\* one is stored already: the count grows by one and the rows stored before
\* stay as they were.
C12_SubmitAddsOne ==
    [][Len(issued') > Len(issued)
       => (/\ req'.op = "submit"
           /\ resp'.code = 200
           /\ Len(rows') = Len(rows) + 1
           /\ \A i \in 1..Len(rows) : rows'[i] = rows[i]
           /\ rows'[Len(rows')].id = resp'.body.id)]_vars

C12_Witness ==
    /\ req.op = "submit"
    /\ resp.code = 200
    /\ Len(rows) = 2
    /\ accepted[1] = accepted[2]
    /\ rows[1].timestamp = rows[2].timestamp

RECURSIVE SumCounts(_)
SumCounts(d) == IF d = <<>> THEN 0 ELSE d[1][2] + SumCounts(Tail(d))

\* C13: with submits and clears running beside it, every stats response has
\* total_responses equal to the sum of the counts of its q1_distribution,
\* of its q4_distribution and of its q5_distribution.
C13_StatsOneState ==
    resp.op = "stats"
        => /\ resp.body.total_responses = SumCounts(resp.body.q1_distribution)
           /\ resp.body.total_responses = SumCounts(resp.body.q4_distribution)
           /\ resp.body.total_responses = SumCounts(resp.body.q5_distribution)

\* C14: a stored record never changes, the read operations leave the store
\* as it is, and a step keeps all the records stored before it or none.
C14_ImmutableAllOrNone ==
    [][/\ \A i \in 1..Len(rows) :
             \A j \in 1..Len(rows') : rows'[j].id = rows[i].id => rows'[j] = rows[i]
       /\ req'.op \in {"list", "stats", "export"} => (rows' = rows /\ seq' = seq)
       /\ \/ \A i \in 1..Len(rows) : \E j \in 1..Len(rows') : rows'[j] = rows[i]
          \/ \A i \in 1..Len(rows) : \A j \in 1..Len(rows') : rows'[j].id # rows[i].id]_vars

C14_Witness ==
    /\ req.op = "clear"
    /\ resp.code = 200
    /\ rows = <<>>
    /\ Len(issued) = 2
    /\ clock = 0

\* C15: a clear sent by clearData deletes nothing, also after the correct
\* password in the prompt: the request carries no password, the answer is
\* 401 Unauthorized, and every record ever stored is still stored.
C15_PageNeverClears ==
    /\ Len(rows) = Len(issued)
    /\ alert # "All responses have been cleared."
    /\ req.op = "clear"
          => /\ "password" \notin DOMAIN req.args
             /\ resp.code = 401
             /\ resp.body.message = "Unauthorized"

C15_Witness ==
    /\ alert = "Error clearing responses."
    /\ req.op = "clear"
    /\ resp.code = 401
    /\ Len(rows) = 2

====
